---- MODULE Spec2Model ----
(***************************************************************************)
(* Model of pkg/util/webhooks/tls.go: the four TLS configuration builders, *)
(* the callbacks they install, the policy helpers and verifyPeerCert.      *)
(*                                                                         *)
(* Pointers are modelled by strings: Nil is the nil pointer / nil error.   *)
(* A *tls.Config is a record; NilConfig is the nil *tls.Config.            *)
(***************************************************************************)
EXTENDS Integers, Sequences, FiniteSets, TLC

\* ------------------------------------------------------------------ bounds
\* number of handshakes (callback call contexts) the runtime runs at once
MaxHandshakes == 1
\* number of intermediates a peer may present after its leaf
MaxIntermediates == 2

\* --------------------------------------------------------------- constants
Nil == "nil"

noSrvCertMessage == "No server certificate, server is not yet ready to receive traffic"
noCACertMessage == "No ca certificate, server is not yet ready to receive traffic"
noClientCertMessage == "No client certificate, client is not yet ready to talk to the server"
promNoCertMessage == "failed to get a certificate"
noPeerCertMessage == "no client certificate provided."
parsePeerCertMessage == "failed to parse peer certificate"
verifyPeerCertMessage == "could not verify peer certificate"
commonNameMessage == "common name is invalid"

\* tls.VersionTLS10 .. tls.VersionTLS13 (0x0301 .. 0x0304)
VersionTLS10 == 769
VersionTLS11 == 770
VersionTLS12 == 771
VersionTLS13 == 772

\* x509.ExtKeyUsageClientAuth / x509.ExtKeyUsageServerAuth
ExtKeyUsageClientAuth == "ExtKeyUsageClientAuth"
ExtKeyUsageServerAuth == "ExtKeyUsageServerAuth"

\* tls.ClientAuthType values handed to SetupTLSWithCertManager
ClientAuthTypes == {"NoClientCert", "VerifyClientCertIfGiven", "RequireAndVerifyClientCert"}

\* the four builders
Roles == {"SetupPromTLS", "SetupTLSWithCertManager",
          "SetupTLSForVirtHandlerServer", "SetupTLSForVirtHandlerClients"}
ServerRoles == Roles \ {"SetupTLSForVirtHandlerClients"}

Handshakes == 1..MaxHandshakes

\* ------------------------------------------------------------ certificates
\* A raw (DER) certificate is a record: wellFormed says whether
\* x509.ParseCertificate accepts it; subject names the certificate's key, issuer
\* the key that signed it; cn is Subject.CommonName; eku is ExtKeyUsage.
Garbage == [wellFormed |-> FALSE, subject |-> "", issuer |-> "", cn |-> "",
            eku |-> {}, isCA |-> FALSE]
RawCert(subject, issuer, cn, eku, isCA) ==
    [wellFormed |-> TRUE, subject |-> subject, issuer |-> issuer, cn |-> cn,
     eku |-> eku, isCA |-> isCA]

\* a parsed *x509.Certificate
Cert(raw) == [subject |-> raw.subject, issuer |-> raw.issuer, cn |-> raw.cn,
              eku |-> raw.eku, isCA |-> raw.isCA]
NilCert == Cert(Garbage)

\* x509.ParseCertificate
ParseCertificate(raw) ==
    IF raw.wellFormed THEN [c |-> Cert(raw), err |-> Nil]
                      ELSE [c |-> NilCert, err |-> "x509: malformed certificate"]

RootR1 == Cert(RawCert("R1", "R1", "kubevirt-ca", {}, TRUE))
RootR2 == Cert(RawCert("R2", "R2", "kubevirt-ca", {}, TRUE))
RootRX == Cert(RawCert("RX", "RX", "public-ca", {}, TRUE))
RawI1 == RawCert("I1", "R1", "intermediate", {}, TRUE)
RawIX == RawCert("IX", "RX", "intermediate", {}, TRUE)

\* a *x509.CertPool: nil, or the set of its certificates
NilPool == [nil |-> TRUE, certs |-> {}]
NewCertPool == [nil |-> FALSE, certs |-> {}]
AddCert(pool, c) == [pool EXCEPT !.certs = @ \cup {c}]
PoolR1 == AddCert(NewCertPool, RootR1)
PoolR2 == AddCert(NewCertPool, RootR2)

\* the root sets the host may have installed as system roots
SystemRootSets == {{}, {RootRX}}

\* ------------------------------------------------------- external values
\* leaf certificates (with key) the certificate manager may hold for this process
OwnCerts == {"certA", "certB"}

\* results of caManager.GetCurrent(): (pool, err)
CAError == "ca manager error"
CAResults == {[pool |-> PoolR1, err |-> Nil], [pool |-> PoolR2, err |-> Nil],
              [pool |-> NilPool, err |-> Nil], [pool |-> NilPool, err |-> CAError]}

\* snapshots of the KubeVirt CR as seen by clusterConfig.GetConfigFromKubeVirtCR():
\* kv = FALSE: no CR (nil); tls = FALSE: Spec.Configuration.TLSConfiguration is nil
NoKubeVirt == [kv |-> FALSE, tls |-> FALSE, MinTLSVersion |-> "", Ciphers |-> <<>>]
NoTLSConfiguration == [kv |-> TRUE, tls |-> FALSE, MinTLSVersion |-> "", Ciphers |-> <<>>]
ClusterConfigs ==
    {NoKubeVirt, NoTLSConfiguration,
     [kv |-> TRUE, tls |-> TRUE, MinTLSVersion |-> "VersionTLS13",
      Ciphers |-> <<"TLS_AES_128_GCM_SHA256", "NOT_A_CIPHER", "TLS_RSA_WITH_RC4_128_SHA">>]}

\* the certificate manager, CA manager and cluster configuration at the time
\* the builders were called
BuildCert == "certA"
BuildCA == [pool |-> PoolR1, err |-> Nil]
BuildClusterConfig == NoKubeVirt

VARIABLES
    certCurrent,    \* what certManager.Current() returns: Nil or a leaf certificate
    caCurrent,      \* what caManager.GetCurrent() returns: [pool, err]
    clusterConfig,  \* what clusterConfig.GetConfigFromKubeVirtCR() sees
    tlsConfig,      \* the *tls.Config each builder returned
    systemRoots,    \* the host's system root certificates (x509 uses them for nil Roots)
    hs,             \* per handshake: position, per-client config, results
    verifyCall,     \* a direct call of verifyPeerCert: its arguments and result
    policyCall,     \* a direct call of a policy helper: its argument and result
    cmdRun          \* one run of the log-verbosity command: its flags, the CR, its outcome

vars == <<certCurrent, caCurrent, clusterConfig, tlsConfig, systemRoots, hs, verifyCall,
          policyCall, cmdRun>>

\* ------------------------------------------------------------ policy helpers
\* tls.CipherSuites(): name, id (a part of the runtime's catalog)
cipherSuites ==
    << [Name |-> "TLS_AES_128_GCM_SHA256", ID |-> 4865],
       [Name |-> "TLS_AES_256_GCM_SHA384", ID |-> 4866],
       [Name |-> "TLS_ECDHE_RSA_WITH_AES_128_GCM_SHA256", ID |-> 49199] >>

\* tls.InsecureCipherSuites()
insecureCipherSuites ==
    << [Name |-> "TLS_RSA_WITH_RC4_128_SHA", ID |-> 5],
       [Name |-> "TLS_RSA_WITH_3DES_EDE_CBC_SHA", ID |-> 10] >>

\* idByName after the two loops of CipherSuiteIds: a later entry of the same
\* name overwrites an earlier one; a name that is absent is not in its DOMAIN
RECURSIVE PutAll(_, _)
PutAll(m, suites) ==
    IF suites = <<>> THEN m
    ELSE PutAll([n \in DOMAIN m \cup {Head(suites).Name} |->
                    IF n = Head(suites).Name THEN Head(suites).ID ELSE m[n]],
                Tail(suites))

EmptyMap == [n \in {} |-> 0]

idByName == PutAll(PutAll(EmptyMap, cipherSuites), insecureCipherSuites)

RECURSIVE AppendIds(_, _)
AppendIds(ids, names) ==
    IF names = <<>> THEN ids
    ELSE AppendIds(IF Head(names) \in DOMAIN idByName
                      THEN Append(ids, idByName[Head(names)])
                      ELSE ids,
                   Tail(names))

\* CipherSuiteIds giving up at the first name it does not know
RECURSIVE AppendIdsUntilUnknown(_, _)
AppendIdsUntilUnknown(ids, names) ==
    IF names = <<>> \/ Head(names) \notin DOMAIN idByName THEN ids
    ELSE AppendIdsUntilUnknown(Append(ids, idByName[Head(names)]), Tail(names))

CipherSuiteIds_StopAtUnknown(names) == AppendIdsUntilUnknown(<<>>, names)

CipherSuiteIds(names) == AppendIds(<<>>, names)

\* TlsVersion whose default branch returns the lowest version
TlsVersion_DefaultLowest(version) ==
    CASE version = "VersionTLS10" -> VersionTLS10
      [] version = "VersionTLS11" -> VersionTLS11
      [] version = "VersionTLS12" -> VersionTLS12
      [] version = "VersionTLS13" -> VersionTLS13
      [] OTHER -> VersionTLS10

TlsVersion(version) ==
    CASE version = "VersionTLS10" -> VersionTLS10
      [] version = "VersionTLS11" -> VersionTLS11
      [] version = "VersionTLS12" -> VersionTLS12
      [] version = "VersionTLS13" -> VersionTLS13
      [] OTHER -> VersionTLS12

\* getTLSConfiguration without the test of the TLS substructure
getTLSConfiguration_NoSubstructureCheck(cc) ==
    IF cc.kv
       THEN [MinTLSVersion |-> cc.MinTLSVersion, Ciphers |-> cc.Ciphers]
       ELSE [MinTLSVersion |-> "VersionTLS12", Ciphers |-> <<>>]

getTLSConfiguration(cc) ==
    IF cc.kv /\ cc.tls
       THEN [MinTLSVersion |-> cc.MinTLSVersion, Ciphers |-> cc.Ciphers]
       ELSE [MinTLSVersion |-> "VersionTLS12", Ciphers |-> <<>>]

\* ------------------------------------------------------------ peer verifier
\* whether certificate c may be used for usage (x509: an empty list allows all)
AllowsUsage(c, usage) == c.eku = {} \/ usage \in c.eku

\* x509 chain building: c is a root, or was signed by a root, or by an
\* intermediate CA that itself chains to a root; every certificate of the
\* chain must allow the usage
RECURSIVE ChainsTo(_, _, _, _)
ChainsTo(c, roots, inters, usage) ==
    /\ AllowsUsage(c, usage)
    /\ \/ c \in roots
       \/ \E r \in roots : r.subject = c.issuer /\ AllowsUsage(r, usage)
       \/ \E i \in inters :
             /\ i.subject = c.issuer
             /\ i.isCA
             /\ ChainsTo(i, roots, inters \ {i}, usage)

\* (*x509.Certificate).Verify: nil Roots means the system roots,
\* nil Intermediates means none
Verify(c, opts) ==
    LET roots == IF opts.Roots.nil THEN systemRoots ELSE opts.Roots.certs
        inters == IF opts.Intermediates.nil THEN {} ELSE opts.Intermediates.certs
    IN IF \E u \in opts.KeyUsages : ChainsTo(c, roots, inters, u)
          THEN Nil
          ELSE "x509: certificate signed by unknown authority or unfit for usage"

RECURSIVE AddParsed(_, _)
AddParsed(pool, rawIntermediates) ==
    IF rawIntermediates = <<>> THEN pool
    ELSE LET p == ParseCertificate(Head(rawIntermediates))
         IN AddParsed(IF p.err # Nil THEN pool ELSE AddCert(pool, p.c),
                      Tail(rawIntermediates))

\* mutant: the first intermediate that fails to parse ends the loop
RECURSIVE AddParsedUntilError(_, _)
AddParsedUntilError(pool, rawIntermediates) ==
    IF rawIntermediates = <<>> THEN pool
    ELSE LET p == ParseCertificate(Head(rawIntermediates))
         IN IF p.err # Nil THEN pool
            ELSE AddParsedUntilError(AddCert(pool, p.c), Tail(rawIntermediates))

\* mutant: the pool is built in either mode
createIntermediatePool_AnyMode(externallyManaged, rawIntermediates) ==
    AddParsed(NewCertPool, rawIntermediates)

createIntermediatePool_StopOnError(externallyManaged, rawIntermediates) ==
    IF externallyManaged THEN AddParsedUntilError(NewCertPool, rawIntermediates)
                         ELSE NilPool

createIntermediatePool(externallyManaged, rawIntermediates) ==
    IF externallyManaged THEN AddParsed(NewCertPool, rawIntermediates)
                         ELSE NilPool

FullCommonName(commonName) == "kubevirt.io:system:" \o commonName \o ":virt-handler"

\* the body of verifyPeerCert after the check for an empty chain;
\* checkName: whether the common name is compared
VerifyPresented(rawCerts, externallyManaged, certPool, usage, commonName, checkName) ==
    LET rawPeer == rawCerts[1]
        rawIntermediates == Tail(rawCerts)
        p == ParseCertificate(rawPeer)
        intermediatePool == createIntermediatePool(externallyManaged, rawIntermediates)
    IN IF p.err # Nil THEN parsePeerCertMessage
       ELSE IF Verify(p.c, [Roots |-> certPool,
                            Intermediates |-> intermediatePool,
                            KeyUsages |-> {usage}]) # Nil
               THEN verifyPeerCertMessage
       ELSE IF checkName /\ ~externallyManaged /\ p.c.cn # FullCommonName(commonName)
               THEN commonNameMessage
       ELSE Nil

\* mutant: the common name is never compared
verifyPeerCert_NoNameCheck(rawCerts, externallyManaged, certPool, usage, commonName) ==
    IF Len(rawCerts) = 0 THEN noPeerCertMessage
    ELSE VerifyPresented(rawCerts, externallyManaged, certPool, usage, commonName, FALSE)

\* mutant: an empty chain is accepted
verifyPeerCert_EmptyAccepted(rawCerts, externallyManaged, certPool, usage, commonName) ==
    IF Len(rawCerts) = 0 THEN Nil
    ELSE VerifyPresented(rawCerts, externallyManaged, certPool, usage, commonName, TRUE)

verifyPeerCert(rawCerts, externallyManaged, certPool, usage, commonName) ==
    IF Len(rawCerts) = 0 THEN noPeerCertMessage
    ELSE
      LET rawPeer == rawCerts[1]
          rawIntermediates == Tail(rawCerts)
          p == ParseCertificate(rawPeer)
          intermediatePool == createIntermediatePool(externallyManaged, rawIntermediates)
      IN IF p.err # Nil THEN parsePeerCertMessage
         ELSE IF Verify(p.c, [Roots |-> certPool,
                              Intermediates |-> intermediatePool,
                              KeyUsages |-> {usage}]) # Nil
                 THEN verifyPeerCertMessage
         ELSE IF ~externallyManaged /\ p.c.cn # FullCommonName(commonName)
                 THEN commonNameMessage
         ELSE Nil

\* ------------------------------------------------------------ tls.Config
\* The zero tls.Config. GetCertificate .. VerifyPeerCertificate say whether the
\* callback is installed; captured* and externallyManaged / clientAuth are the
\* variables its closures captured.
ZeroConfig ==
    [nil |-> FALSE, builder |-> Nil, perClient |-> FALSE,
     InsecureSkipVerify |-> FALSE, ClientAuth |-> "NoClientCert",
     GetCertificate |-> FALSE, GetConfigForClient |-> FALSE,
     GetClientCertificate |-> FALSE, VerifyPeerCertificate |-> FALSE,
     CipherSuites |-> <<>>, MinVersion |-> 0,
     Certificates |-> <<>>, ClientCAs |-> NilPool,
     capturedCert |-> Nil, capturedPool |-> NilPool,
     externallyManaged |-> FALSE, clientAuth |-> "NoClientCert"]

NilConfig == [ZeroConfig EXCEPT !.nil = TRUE]

\* ---- SetupPromTLS
SetupPromTLS_GetCertificate ==
    IF certCurrent = Nil THEN [cert |-> Nil, err |-> noSrvCertMessage]
                         ELSE [cert |-> certCurrent, err |-> Nil]

\* the configuration GetConfigForClient of the metrics server builds
PromConfig(crt, tlsConfiguration) ==
    [ZeroConfig EXCEPT
        !.builder = "SetupPromTLS", !.perClient = TRUE,
        !.CipherSuites = CipherSuiteIds(tlsConfiguration.Ciphers),
        !.MinVersion = TlsVersion(tlsConfiguration.MinTLSVersion),
        !.Certificates = <<crt>>,
        !.ClientAuth = "VerifyClientCertIfGiven"]

\* mutant: a nil certificate is not refused
PromGetConfigForClient_NoCertCheck ==
    [config |-> PromConfig(certCurrent, getTLSConfiguration(clusterConfig)),
     err |-> Nil]

\* mutant: the policy is resolved when the builder is called
PromGetConfigForClient_BuildTimePolicy ==
    LET crt == certCurrent
        tlsConfiguration == getTLSConfiguration(BuildClusterConfig)
    IN IF crt = Nil THEN [config |-> NilConfig, err |-> promNoCertMessage]
       ELSE [config |-> PromConfig(crt, tlsConfiguration), err |-> Nil]

\* mutant: a handshake that was refused makes the callback refuse the others
PromGetConfigForClient_StickyFailure ==
    LET crt == certCurrent
        tlsConfiguration == getTLSConfiguration(clusterConfig)
    IN IF crt = Nil \/ \E g \in DOMAIN hs : hs[g].pc = "aborted"
          THEN [config |-> NilConfig, err |-> promNoCertMessage]
          ELSE [config |-> PromConfig(crt, tlsConfiguration), err |-> Nil]

SetupPromTLS_GetConfigForClient ==
    LET crt == certCurrent
        tlsConfiguration == getTLSConfiguration(clusterConfig)
    IN IF crt = Nil THEN [config |-> NilConfig, err |-> promNoCertMessage]
       ELSE [config |-> PromConfig(crt, tlsConfiguration), err |-> Nil]

SetupPromTLS ==
    [ZeroConfig EXCEPT !.builder = "SetupPromTLS",
                       !.GetCertificate = TRUE, !.GetConfigForClient = TRUE]

\* ---- SetupTLSWithCertManager
SetupTLSWithCertManager_GetCertificate ==
    IF certCurrent = Nil THEN [cert |-> Nil, err |-> noSrvCertMessage]
                         ELSE [cert |-> certCurrent, err |-> Nil]

\* mutant: the generic server requires a client certificate whatever it was given
CertManagerConfig_FixedClientAuth(cert, clientCAPool, clientAuth, tlsConfiguration) ==
    [ZeroConfig EXCEPT
        !.builder = "SetupTLSWithCertManager", !.perClient = TRUE,
        !.CipherSuites = CipherSuiteIds(tlsConfiguration.Ciphers),
        !.MinVersion = TlsVersion(tlsConfiguration.MinTLSVersion),
        !.Certificates = <<cert>>,
        !.ClientCAs = clientCAPool,
        !.ClientAuth = "RequireAndVerifyClientCert"]

\* the configuration GetConfigForClient of the generic server builds
CertManagerConfig(cert, clientCAPool, clientAuth, tlsConfiguration) ==
    [ZeroConfig EXCEPT
        !.builder = "SetupTLSWithCertManager", !.perClient = TRUE,
        !.CipherSuites = CipherSuiteIds(tlsConfiguration.Ciphers),
        !.MinVersion = TlsVersion(tlsConfiguration.MinTLSVersion),
        !.Certificates = <<cert>>,
        !.ClientCAs = clientCAPool,
        !.ClientAuth = clientAuth]

\* mutant: the CA manager's error is ignored
CertManagerGetConfigForClient_IgnoreCAError(clientAuth) ==
    LET cert == certCurrent
        clientCAPool == caCurrent.pool
        tlsConfiguration == getTLSConfiguration(clusterConfig)
    IN IF cert = Nil THEN [config |-> NilConfig, err |-> noSrvCertMessage]
       ELSE [config |-> CertManagerConfig(cert, clientCAPool, clientAuth,
                                          tlsConfiguration),
             err |-> Nil]

SetupTLSWithCertManager_GetConfigForClient(clientAuth) ==
    LET cert == certCurrent
        clientCAPool == caCurrent.pool
        err == caCurrent.err
        tlsConfiguration == getTLSConfiguration(clusterConfig)
    IN IF cert = Nil THEN [config |-> NilConfig, err |-> noSrvCertMessage]
       ELSE IF err # Nil THEN [config |-> NilConfig, err |-> err]
       ELSE [config |-> CertManagerConfig(cert, clientCAPool, clientAuth,
                                          tlsConfiguration),
             err |-> Nil]

SetupTLSWithCertManager(clientAuth) ==
    [ZeroConfig EXCEPT !.builder = "SetupTLSWithCertManager",
                       !.GetCertificate = TRUE, !.GetConfigForClient = TRUE,
                       !.clientAuth = clientAuth]

\* ---- SetupTLSForVirtHandlerServer
SetupTLSForVirtHandlerServer_GetCertificate ==
    IF certCurrent = Nil THEN [cert |-> Nil, err |-> noSrvCertMessage]
                         ELSE [cert |-> certCurrent, err |-> Nil]

\* the configuration GetConfigForClient of the peer server builds
VirtHandlerServerConfig(cert, certPool, externallyManaged, tlsConfiguration) ==
    [ZeroConfig EXCEPT
        !.builder = "SetupTLSForVirtHandlerServer", !.perClient = TRUE,
        !.CipherSuites = CipherSuiteIds(tlsConfiguration.Ciphers),
        !.MinVersion = TlsVersion(tlsConfiguration.MinTLSVersion),
        !.ClientCAs = certPool,
        !.GetCertificate = TRUE,
        !.InsecureSkipVerify = TRUE,
        !.VerifyPeerCertificate = TRUE,
        !.ClientAuth = "RequireAndVerifyClientCert",
        !.capturedCert = cert,
        !.capturedPool = certPool,
        !.externallyManaged = externallyManaged]

\* mutant: the certificate and the pool are read when the builder is called
GetConfigForClient_BuildTimeValues(externallyManaged) ==
    LET certPool == BuildCA.pool
        err == BuildCA.err
        cert == BuildCert
        tlsConfiguration == getTLSConfiguration(clusterConfig)
    IN IF err # Nil THEN [config |-> NilConfig, err |-> err]
       ELSE IF certPool.nil THEN [config |-> NilConfig, err |-> noCACertMessage]
       ELSE IF cert = Nil THEN [config |-> NilConfig, err |-> noSrvCertMessage]
       ELSE [config |-> VirtHandlerServerConfig(cert, certPool, externallyManaged,
                                                tlsConfiguration),
             err |-> Nil]

\* mutant: the per-client configuration has no VerifyPeerCertificate
GetConfigForClient_NoVerifier(externallyManaged) ==
    LET certPool == caCurrent.pool
        err == caCurrent.err
        cert == certCurrent
        tlsConfiguration == getTLSConfiguration(clusterConfig)
    IN IF err # Nil THEN [config |-> NilConfig, err |-> err]
       ELSE IF certPool.nil THEN [config |-> NilConfig, err |-> noCACertMessage]
       ELSE IF cert = Nil THEN [config |-> NilConfig, err |-> noSrvCertMessage]
       ELSE [config |-> [VirtHandlerServerConfig(cert, certPool, externallyManaged,
                                                 tlsConfiguration)
                           EXCEPT !.VerifyPeerCertificate = FALSE],
             err |-> Nil]

\* mutant: a nil pool without error is not refused
GetConfigForClient_NoPoolCheck(externallyManaged) ==
    LET certPool == caCurrent.pool
        err == caCurrent.err
        cert == certCurrent
        tlsConfiguration == getTLSConfiguration(clusterConfig)
    IN IF err # Nil THEN [config |-> NilConfig, err |-> err]
       ELSE IF cert = Nil THEN [config |-> NilConfig, err |-> noSrvCertMessage]
       ELSE [config |-> VirtHandlerServerConfig(cert, certPool, externallyManaged,
                                                tlsConfiguration),
             err |-> Nil]

SetupTLSForVirtHandlerServer_GetConfigForClient(externallyManaged) ==
    LET certPool == caCurrent.pool
        err == caCurrent.err
        cert == certCurrent
        tlsConfiguration == getTLSConfiguration(clusterConfig)
    IN IF err # Nil THEN [config |-> NilConfig, err |-> err]
       ELSE IF certPool.nil THEN [config |-> NilConfig, err |-> noCACertMessage]
       ELSE IF cert = Nil THEN [config |-> NilConfig, err |-> noSrvCertMessage]
       ELSE [config |-> VirtHandlerServerConfig(cert, certPool, externallyManaged,
                                                tlsConfiguration),
             err |-> Nil]

\* the GetCertificate closure of the per-client config: returns the captured cert
PerClient_GetCertificate(config) == [cert |-> config.capturedCert, err |-> Nil]

\* mutant: the peer server verifies as the peer client does
PerClient_VerifyPeerCertificate_AsClient(config, rawCerts) ==
    verifyPeerCert(rawCerts, config.externallyManaged, config.capturedPool,
                   ExtKeyUsageServerAuth, "node")

\* the VerifyPeerCertificate closure of the per-client config
PerClient_VerifyPeerCertificate(config, rawCerts) ==
    verifyPeerCert(rawCerts, config.externallyManaged, config.capturedPool,
                   ExtKeyUsageClientAuth, "client")

SetupTLSForVirtHandlerServer(externallyManaged) ==
    [ZeroConfig EXCEPT !.builder = "SetupTLSForVirtHandlerServer",
                       !.InsecureSkipVerify = TRUE,
                       !.GetCertificate = TRUE, !.GetConfigForClient = TRUE,
                       !.externallyManaged = externallyManaged]

\* ---- SetupTLSForVirtHandlerClients
\* mutant: a nil certificate is returned without error
ClientsGetCertificate_NoCertCheck == [cert |-> certCurrent, err |-> Nil]

SetupTLSForVirtHandlerClients_GetCertificate ==
    IF certCurrent = Nil THEN [cert |-> Nil, err |-> noSrvCertMessage]
                         ELSE [cert |-> certCurrent, err |-> Nil]

SetupTLSForVirtHandlerClients_GetClientCertificate ==
    IF certCurrent = Nil THEN [cert |-> Nil, err |-> noClientCertMessage]
                         ELSE [cert |-> certCurrent, err |-> Nil]

SetupTLSForVirtHandlerClients_VerifyPeerCertificate(config, rawCerts) ==
    LET certPool == caCurrent.pool
        err == caCurrent.err
    IN IF err # Nil THEN err
       ELSE verifyPeerCert(rawCerts, config.externallyManaged, certPool,
                           ExtKeyUsageServerAuth, "node")

SetupTLSForVirtHandlerClients(externallyManaged) ==
    [ZeroConfig EXCEPT !.builder = "SetupTLSForVirtHandlerClients",
                       !.InsecureSkipVerify = TRUE,
                       !.ClientAuth = "RequireAndVerifyClientCert",
                       !.GetCertificate = TRUE, !.GetClientCertificate = TRUE,
                       !.VerifyPeerCertificate = TRUE,
                       !.externallyManaged = externallyManaged]

\* ------------------------------------------------------------ presented chains
ClientCN == FullCommonName("client")
NodeCN == FullCommonName("node")

Leaf(issuer, cn, eku) == RawCert("leaf", issuer, cn, eku, FALSE)

\* chains a peer presents in a handshake (the runtime never hands an empty one
\* to VerifyPeerCertificate)
PeerChains ==
    {<<Leaf("R1", ClientCN, {ExtKeyUsageClientAuth})>>,
     <<Leaf("R1", NodeCN, {ExtKeyUsageServerAuth})>>,
     <<Leaf("R2", ClientCN, {ExtKeyUsageClientAuth})>>,
     <<Leaf("RX", NodeCN, {ExtKeyUsageServerAuth})>>}

\* arguments of direct calls of verifyPeerCert
VerifyLeaves ==
    {Leaf(i, cn, eku) : i \in {"R1", "R2", "I1", "RX"},
                        cn \in {ClientCN, NodeCN, "other"},
                        eku \in {{}, {ExtKeyUsageClientAuth}, {ExtKeyUsageServerAuth}}}
    \cup {Garbage}

IntermediateSeqs ==
    UNION {[1..n -> {RawI1, RawIX, Garbage}] : n \in 0..MaxIntermediates}

VerifyChains == {<<>>} \cup {<<l>> \o is : l \in VerifyLeaves, is \in IntermediateSeqs}

NoCall == [called |-> FALSE, rawCerts |-> <<>>, externallyManaged |-> FALSE,
           certPool |-> NilPool, usage |-> ExtKeyUsageClientAuth,
           commonName |-> "client", result |-> Nil]

\* ------------------------------------------------- calls of policy helpers
MaxNames == 3

\* version labels: the four of the API, the empty one, and unrecognized ones
VersionLabels == {"VersionTLS10", "VersionTLS11", "VersionTLS12", "VersionTLS13",
                  "", "VersionTLS14", "versiontls13", "1.3"}

\* cipher names: the catalog's, and names that are not in it
CipherNames == {"TLS_AES_128_GCM_SHA256", "TLS_AES_256_GCM_SHA384",
                "TLS_ECDHE_RSA_WITH_AES_128_GCM_SHA256", "TLS_RSA_WITH_RC4_128_SHA",
                "TLS_RSA_WITH_3DES_EDE_CBC_SHA", "NOT_A_CIPHER", ""}

NameSeqs == UNION {[1..n -> CipherNames] : n \in 0..MaxNames}

\* what GetConfigFromKubeVirtCR() may see: no CR, a CR without TLS
\* configuration, a CR with one (any label, at most one cipher name)
PolicyConfigs ==
    {NoKubeVirt, NoTLSConfiguration}
    \cup {[kv |-> TRUE, tls |-> TRUE, MinTLSVersion |-> v, Ciphers |-> ns] :
             v \in VersionLabels, ns \in {n \in NameSeqs : Len(n) <= 1}}

DefaultPolicy == [MinTLSVersion |-> "VersionTLS12", Ciphers |-> <<>>]

NoPolicyCall == [fn |-> Nil, called |-> FALSE, version |-> "", names |-> <<>>,
                 cc |-> NoKubeVirt, id |-> 0, ids |-> <<>>,
                 tlsConfiguration |-> DefaultPolicy]

\* --------------------------------------------------- log-verbosity command
\* (pkg/virtctl/adm/logverbosity/logverbosity.go, lines 1-465)
MaxFlags == 3

\* math.MaxUint: the model keeps the order of 0..9, 10 and the two largest
\* values of the type, not the width of uint
MaxUint == 63
noFlag == MaxUint - 1
noArg == MaxUint
minVerbosity == 0
maxVerbosity == 9

\* virtconfig.DefaultVirt*LogVerbosity
DefaultLogVerbosity == 2

\* virtAPI, virtController, virtHandler, virtLauncher, virtOperator, all
virtComponentNum == 6
Components == 1..virtComponentNum
all == virtComponentNum
componentName == <<"virt-api", "virt-controller", "virt-handler", "virt-launcher",
                   "virt-operator", "all">>

showSetMessage == "show and set cannot coexist"
showResetMessage == "show and reset cannot coexist"
noFlagMessage == "no flag specified - expecting at least one flag"
successMessage == "successfully set/reset the log verbosity"
rangeMessage(name) ==
    name \o ": log verbosity must be " \o ToString(minVerbosity) \o "-" \o ToString(maxVerbosity)
\* cobra's error for two flags of a group marked mutually exclusive
exclusiveMessage ==
    "if any flags in the group [reset all] are set none of the others can be; [all reset] were all set"
noInstallationMessage == "could not detect a KubeVirt installation"
manyInstallationsMessage == "invalid kubevirt installation, more than one KubeVirt resource found"
listErrorMessage == "could not list KubeVirt CRs in all namespaces: unreachable"

\* ---- inputs
\* the value a flag variable has after parsing: noFlag when the flag was not
\* given, noArg when it was given without "=value" (NoOptDefVal)
ArgValues == {0, 7, 10, noFlag, noArg}
NotGiven == [changed |-> FALSE, verbosity |-> noFlag]
FlagOptions == {NotGiven} \cup [changed : {TRUE}, verbosity : ArgValues]
FlagSets == {f \in [Components -> FlagOptions] :
               Cardinality({c \in Components : f[c].changed}) <= MaxFlags}

\* --reset absent, --reset, --reset=false
ResetOptions == {[changed |-> FALSE, value |-> FALSE], [changed |-> TRUE, value |-> TRUE],
                 [changed |-> TRUE, value |-> FALSE]}

\* the KubeVirt CR: whether spec.configuration.developerConfiguration is set,
\* whether its logVerbosity is set, and logVerbosity's five fields (0: omitted)
NoVerbosity == [c \in 1..(virtComponentNum - 1) |-> 0]
KubeVirt(devConfig, lvSet, lv) == [devConfig |-> devConfig, lvSet |-> lvSet, lv |-> lv]
KubeVirts == {KubeVirt(FALSE, FALSE, NoVerbosity),
              KubeVirt(TRUE, FALSE, NoVerbosity),
              KubeVirt(TRUE, TRUE, NoVerbosity),
              KubeVirt(TRUE, TRUE, <<5, 6, 0, 3, 4>>)}

\* what the cluster answers to List and Get
Clusters == {"ok", "none", "several", "unreachable"}
Environments == [cluster : {"ok"}, kv : KubeVirts]
                \cup [cluster : Clusters \ {"ok"}, kv : {KubeVirt(TRUE, FALSE, NoVerbosity)}]

\* ---- setComponentInfo
OutOfRange(f) ==
    f.changed /\ f.verbosity # noArg /\ f.verbosity > maxVerbosity /\ f.verbosity < noArg

\* mutant: no range check
setComponentInfo_NoRangeCheck(flags) ==
    [err |-> Nil,
     componentInfo |->
        [c \in Components |->
            [verbosity |-> flags[c].verbosity,
             showFlag |-> flags[c].changed /\ flags[c].verbosity = noArg,
             setFlag |-> flags[c].changed /\ flags[c].verbosity # noArg]]]

setComponentInfo(flags) ==
    LET bad == {c \in Components : OutOfRange(flags[c])}
        first == CHOOSE c \in bad : \A d \in bad : c <= d
    IN IF bad # {}
          THEN [err |-> rangeMessage(componentName[first]),
                componentInfo |->
                   [c \in Components |-> [verbosity |-> flags[c].verbosity,
                                          showFlag |-> FALSE, setFlag |-> FALSE]]]
          ELSE [err |-> Nil,
                componentInfo |->
                   [c \in Components |->
                       LET hasFlag == flags[c].changed
                           hasArg == hasFlag /\ flags[c].verbosity # noArg
                       IN [verbosity |-> flags[c].verbosity,
                           showFlag |-> hasFlag /\ ~hasArg,
                           setFlag |-> hasFlag /\ hasArg]]]

\* ---- hasTarget: the loop from component on
RECURSIVE hasTargetFrom(_, _, _, _)
hasTargetFrom(componentInfo, component, hasShowTarget, hasSetTarget) ==
    IF component > all THEN <<hasShowTarget, hasSetTarget>>
    ELSE IF ~hasShowTarget /\ componentInfo[component].showFlag
            THEN hasTargetFrom(componentInfo, component + 1, TRUE, hasSetTarget)
    ELSE IF ~hasSetTarget /\ componentInfo[component].setFlag
            THEN hasTargetFrom(componentInfo, component + 1, hasShowTarget, TRUE)
    ELSE IF hasShowTarget /\ hasSetTarget
            THEN <<hasShowTarget, hasSetTarget>>
    ELSE hasTargetFrom(componentInfo, component + 1, hasShowTarget, hasSetTarget)

hasTarget(componentInfo) == hasTargetFrom(componentInfo, 1, FALSE, FALSE)

\* mutant: show wins over set and reset
findOperation_ShowWins(componentInfo, resetFlag) ==
    LET hasShowTarget == hasTarget(componentInfo)[1]
        hasSetTarget == hasTarget(componentInfo)[2]
    IN IF hasShowTarget THEN [op |-> "show", err |-> Nil]
       ELSE IF hasSetTarget \/ resetFlag THEN [op |-> "set", err |-> Nil]
       ELSE [op |-> "nop", err |-> Nil]

\* mutant: without any flag the operation is show
findOperation_NopIsShow(componentInfo, resetFlag) ==
    LET hasShowTarget == hasTarget(componentInfo)[1]
        hasSetTarget == hasTarget(componentInfo)[2]
    IN IF hasShowTarget /\ hasSetTarget THEN [op |-> "-1", err |-> showSetMessage]
       ELSE IF hasShowTarget /\ resetFlag THEN [op |-> "-1", err |-> showResetMessage]
       ELSE IF hasSetTarget \/ resetFlag THEN [op |-> "set", err |-> Nil]
       ELSE [op |-> "show", err |-> Nil]

findOperation(componentInfo, resetFlag) ==
    LET hasShowTarget == hasTarget(componentInfo)[1]
        hasSetTarget == hasTarget(componentInfo)[2]
    IN IF hasShowTarget /\ hasSetTarget THEN [op |-> "-1", err |-> showSetMessage]
       ELSE IF hasShowTarget /\ resetFlag THEN [op |-> "-1", err |-> showResetMessage]
       ELSE IF hasShowTarget THEN [op |-> "show", err |-> Nil]
       ELSE IF hasSetTarget \/ resetFlag THEN [op |-> "set", err |-> Nil]
       ELSE [op |-> "nop", err |-> Nil]

\* ---- hasVerbosityInKV: the CR's logVerbosity through JSON into a map
\* (omitempty drops a field that is 0; JSON null makes the map nil).
\* Called only when developerConfiguration is set.
emptyLvMap == [c \in {} |-> 0]

hasVerbosityInKV(kv) ==
    IF ~kv.lvSet THEN [nil |-> TRUE, m |-> emptyLvMap]
    ELSE [nil |-> FALSE,
          m |-> [c \in {d \in DOMAIN kv.lv : kv.lv[d] # 0} |-> kv.lv[c]]]

\* ---- createOutputMessage: the loop from component on
RECURSIVE createOutputMessageFrom(_, _, _, _)
createOutputMessageFrom(verbosityVal, componentInfo, component, message) ==
    IF component >= all THEN message
    ELSE createOutputMessageFrom(
            verbosityVal, componentInfo, component + 1,
            IF componentInfo[component].showFlag \/ componentInfo[all].showFlag
               THEN message \o componentName[component] \o "="
                            \o ToString(verbosityVal[component]) \o "\n"
               ELSE message)

createOutputMessage(verbosityVal, componentInfo) ==
    createOutputMessageFrom(verbosityVal, componentInfo, 1, "")

\* mutant: the verbosity of the CR is not looked at
createShowMessage_DefaultsOnly(kv, componentInfo) ==
    createOutputMessage([c \in 1..(virtComponentNum - 1) |-> DefaultLogVerbosity],
                        componentInfo)

createShowMessage(kv, componentInfo) ==
    LET lvMap == hasVerbosityInKV(kv).m
        verbosityVal == [c \in 1..(virtComponentNum - 1) |->
                            IF c \in DOMAIN lvMap THEN lvMap[c] ELSE DefaultLogVerbosity]
    IN createOutputMessage(verbosityVal, componentInfo)

\* ---- setVerbosity: lvMap after the loop
\* mutant: a verbosity the CR has is not carried over
setVerbosity_IgnoreExisting(lvMap, componentInfo, resetFlag) ==
    LET val(c) == IF componentInfo[c].setFlag THEN componentInfo[c].verbosity
                  ELSE IF componentInfo[all].setFlag THEN componentInfo[all].verbosity
                  ELSE MaxUint
    IN [c \in {d \in 1..(virtComponentNum - 1) : val(d) # MaxUint} |-> val(c)]

\* mutant: the value of --all goes before a component's own value
setVerbosity_AllWins(lvMap, componentInfo, resetFlag) ==
    LET val(c) == IF componentInfo[all].setFlag THEN componentInfo[all].verbosity
                  ELSE IF componentInfo[c].setFlag THEN componentInfo[c].verbosity
                  ELSE IF ~resetFlag /\ c \in DOMAIN lvMap THEN lvMap[c]
                  ELSE MaxUint
    IN [c \in DOMAIN lvMap \cup {d \in 1..(virtComponentNum - 1) : val(d) # MaxUint} |->
           IF val(c) # MaxUint THEN val(c) ELSE lvMap[c]]

setVerbosity(lvMap, componentInfo, resetFlag) ==
    LET val(c) == IF componentInfo[c].setFlag THEN componentInfo[c].verbosity
                  ELSE IF componentInfo[all].setFlag THEN componentInfo[all].verbosity
                  ELSE IF ~resetFlag /\ c \in DOMAIN lvMap THEN lvMap[c]
                  ELSE MaxUint
    IN [c \in DOMAIN lvMap \cup {d \in 1..(virtComponentNum - 1) : val(d) # MaxUint} |->
           IF val(c) # MaxUint THEN val(c) ELSE lvMap[c]]

\* ---- createPatch: the patch operations. The map added for a reset is the
\* one setVerbosity fills afterwards: both operations carry its final content.
PatchOperation(lvMap) ==
    [Op |-> "add", Path |-> "/spec/configuration/developerConfiguration/logVerbosity",
     Value |-> lvMap]

\* mutant: the map read from the CR is not emptied for a reset
createPatch_NoReset(kv, componentInfo, resetFlag) ==
    LET read == hasVerbosityInKV(kv)
        lvMap == setVerbosity(read.m, componentInfo, resetFlag)
    IN IF DOMAIN lvMap # {} THEN <<PatchOperation(lvMap)>> ELSE <<>>

createPatch(kv, componentInfo, resetFlag) ==
    LET read == hasVerbosityInKV(kv)
        resets == resetFlag /\ DOMAIN read.m # {}
        lvMap == setVerbosity(IF resets THEN emptyLvMap ELSE read.m, componentInfo, resetFlag)
    IN (IF resets THEN <<PatchOperation(lvMap)>> ELSE <<>>)
       \o (IF DOMAIN lvMap # {} THEN <<PatchOperation(lvMap)>> ELSE <<>>)

\* json.Marshal of the operations, as tokens: "[", one per operation, "]"
Marshal(patchData) == <<"[">> \o [i \in 1..Len(patchData) |-> "op"] \o <<"]">>

\* the CR after the cluster applied the operations in order
RECURSIVE Patch(_, _)
Patch(kv, patchData) ==
    IF patchData = <<>> THEN kv
    ELSE Patch(KubeVirt(TRUE, TRUE,
                        [c \in 1..(virtComponentNum - 1) |->
                            IF c \in DOMAIN Head(patchData).Value
                               THEN Head(patchData).Value[c] ELSE 0]),
               Tail(patchData))

\* ---- the command: cobra's flag groups, then RunE
Outcome(kv) == [err |-> Nil, panic |-> FALSE, printed |-> <<>>, patchData |-> <<>>,
                patched |-> FALSE, kv |-> kv]

RunE(flags, resetFlag, env) ==
    LET info == setComponentInfo(flags)
        found == findOperation(info.componentInfo, resetFlag)
        kv == env.kv
        none == Outcome(kv)
    IN IF info.err # Nil THEN [none EXCEPT !.err = info.err]
       ELSE IF env.cluster = "unreachable" THEN [none EXCEPT !.err = listErrorMessage]
       ELSE IF env.cluster = "none" THEN [none EXCEPT !.err = noInstallationMessage]
       ELSE IF env.cluster = "several" THEN [none EXCEPT !.err = manyInstallationsMessage]
       ELSE IF found.err # Nil THEN [none EXCEPT !.err = found.err]
       ELSE IF found.op = "nop"
               THEN [none EXCEPT !.printed = <<"help">>, !.err = noFlagMessage]
       ELSE IF ~kv.devConfig THEN [none EXCEPT !.panic = TRUE]
       ELSE IF found.op = "show"
               THEN [none EXCEPT !.printed =
                        <<createShowMessage(kv, info.componentInfo) \o "\n">>]
       ELSE LET patchData == createPatch(kv, info.componentInfo, resetFlag)
                applies == Len(Marshal(patchData)) # 0
            IN [none EXCEPT !.patchData = patchData,
                            !.patched = applies,
                            !.kv = IF applies THEN Patch(kv, patchData) ELSE kv,
                            !.printed = <<successMessage \o "\n">>]

\* the whole invocation: cobra refuses --reset together with --all before RunE
Execute(flags, reset, env) ==
    IF reset.changed /\ flags[all].changed
       THEN [Outcome(env.kv) EXCEPT !.err = exclusiveMessage]
       ELSE RunE(flags, reset.value, env)

\* ---- the variant of the command in src/unnamed/part_000: the flag values
\* are kept in verbosities[] and isReset, the flags asked for in a map options
onlyShowOrSetMessage == "only show or set is allowed"

\* options after findOperation's loop: every flag that was given
Options(flags) == [c \in {d \in Components : flags[d].changed} |-> flags[c].verbosity]

findOperation_part000(flags, isReset) ==
    LET bad == {c \in Components : /\ flags[c].changed
                                    /\ flags[c].verbosity # noArg
                                    /\ flags[c].verbosity > maxVerbosity}
        first == CHOOSE c \in bad : \A d \in bad : c <= d
        isShow == \E c \in Components : flags[c].changed /\ flags[c].verbosity = noArg
        isSet == isReset \/ \E c \in Components : flags[c].changed /\ flags[c].verbosity # noArg
    IN IF bad # {} THEN [op |-> "nop", err |-> rangeMessage(componentName[first])]
       ELSE IF isShow /\ isSet THEN [op |-> "nop", err |-> onlyShowOrSetMessage]
       ELSE IF isShow THEN [op |-> "show", err |-> Nil]
       ELSE IF isSet THEN [op |-> "set", err |-> Nil]
       ELSE [op |-> "nop", err |-> Nil]

\* createOutputMessage: one message per component asked for, from component on
RECURSIVE createOutputMessage_part000(_, _, _)
createOutputMessage_part000(verbosityVal, options, component) ==
    IF component >= all THEN <<>>
    ELSE (IF all \in DOMAIN options \/ component \in DOMAIN options
             THEN <<componentName[component] \o "=" \o ToString(verbosityVal[component])>>
             ELSE <<>>)
         \o createOutputMessage_part000(verbosityVal, options, component + 1)

createShowMessage_part000(kv, options) ==
    LET lvMap == hasVerbosityInKV(kv).m
        verbosityVal == [c \in 1..(virtComponentNum - 1) |->
                            IF c \in DOMAIN lvMap THEN lvMap[c] ELSE DefaultLogVerbosity]
    IN createOutputMessage_part000(verbosityVal, options, 1)

\* setVerbosity: lvMap after --all, then after the components' own flags
setVerbosity_part000(lvMap, options) ==
    [c \in DOMAIN lvMap
            \cup (IF all \in DOMAIN options THEN 1..(virtComponentNum - 1) ELSE {})
            \cup (DOMAIN options \ {all}) |->
        IF c \in DOMAIN options THEN options[c]
        ELSE IF all \in DOMAIN options THEN options[all]
        ELSE lvMap[c]]

\* createPatch: resetVerbosity adds a map of its own, which stays empty
createPatch_part000(kv, options, isReset) ==
    LET read == hasVerbosityInKV(kv).m
        reset == IF isReset /\ DOMAIN read # {} THEN <<PatchOperation(emptyLvMap)>> ELSE <<>>
        lvMap == setVerbosity_part000(IF isReset THEN emptyLvMap ELSE read, options)
    IN reset \o (IF DOMAIN lvMap # {} THEN <<PatchOperation(lvMap)>> ELSE <<>>)

RunE_part000(flags, isReset, env) ==
    LET found == findOperation_part000(flags, isReset)
        options == Options(flags)
        kv == env.kv
        none == Outcome(kv)
    IN IF env.cluster = "unreachable" THEN [none EXCEPT !.err = listErrorMessage]
       ELSE IF env.cluster = "none" THEN [none EXCEPT !.err = noInstallationMessage]
       ELSE IF env.cluster = "several" THEN [none EXCEPT !.err = manyInstallationsMessage]
       ELSE IF found.err # Nil THEN [none EXCEPT !.err = found.err]
       ELSE IF found.op = "nop"
               THEN [none EXCEPT !.printed = <<"help">>, !.err = noFlagMessage]
       ELSE IF ~kv.devConfig THEN [none EXCEPT !.panic = TRUE]
       ELSE IF found.op = "show"
               THEN LET messages == createShowMessage_part000(kv, options)
                    IN [none EXCEPT !.printed =
                          [i \in 1..Len(messages) |-> messages[i] \o "\n"]]
       ELSE LET patchData == createPatch_part000(kv, options, isReset)
                applies == Len(Marshal(patchData)) # 0
            IN [none EXCEPT !.patchData = patchData,
                            !.patched = applies,
                            !.kv = IF applies THEN Patch(kv, patchData) ELSE kv,
                            !.printed = <<successMessage \o "\n">>]

Execute_part000(flags, reset, env) ==
    IF reset.changed /\ flags[all].changed
       THEN [Outcome(env.kv) EXCEPT !.err = exclusiveMessage]
       ELSE RunE_part000(flags, reset.value, env)

NoRun == [called |-> FALSE, flags |-> [c \in Components |-> NotGiven],
          reset |-> [changed |-> FALSE, value |-> FALSE],
          env |-> [cluster |-> "ok", kv |-> KubeVirt(TRUE, FALSE, NoVerbosity)],
          result |-> Outcome(KubeVirt(TRUE, FALSE, NoVerbosity)),
          part000 |-> Outcome(KubeVirt(TRUE, FALSE, NoVerbosity))]

\* ------------------------------------------------------------ handshakes
\* pc: idle -> (GetConfigForClient) configured -> (certificate selection)
\*     certified -> (VerifyPeerCertificate) done, for a server;
\*     idle -> (VerifyPeerCertificate) verified -> (GetClientCertificate) done,
\*     for the client; aborted when a callback returned an error.
IdleHS == [pc |-> "idle", role |-> Nil, config |-> NilConfig, cert |-> Nil,
           err |-> Nil, rawCerts |-> <<>>]

\* the arguments the builders were called with
BuilderArguments ==
    {[externallyManaged |-> FALSE, clientAuth |-> "NoClientCert"],
     [externallyManaged |-> TRUE, clientAuth |-> "RequireAndVerifyClientCert"]}

\* a handshake that ended: its per-client configuration is released, the
\* certificate it used, the chain it was presented and its error are kept
Ended(h, pc, cert, rawCerts, err) ==
    [IdleHS EXCEPT !.pc = pc, !.role = hs[h].role, !.cert = cert,
                   !.rawCerts = rawCerts, !.err = err]

Init ==
    /\ certCurrent = BuildCert
    /\ caCurrent = BuildCA
    /\ clusterConfig = BuildClusterConfig
    /\ systemRoots = {RootRX}
    /\ \E p \in BuilderArguments :
         LET externallyManaged == p.externallyManaged
             clientAuth == p.clientAuth
         IN tlsConfig =
           [r \in Roles |->
              CASE r = "SetupPromTLS" -> SetupPromTLS
                [] r = "SetupTLSWithCertManager" -> SetupTLSWithCertManager(clientAuth)
                [] r = "SetupTLSForVirtHandlerServer" ->
                       SetupTLSForVirtHandlerServer(externallyManaged)
                [] r = "SetupTLSForVirtHandlerClients" ->
                       SetupTLSForVirtHandlerClients(externallyManaged)]
    /\ hs = [h \in Handshakes |-> IdleHS]
    /\ verifyCall = NoCall
    /\ policyCall = NoPolicyCall
    /\ cmdRun = NoRun

env == <<certCurrent, caCurrent, clusterConfig, tlsConfig, systemRoots, verifyCall,
         policyCall, cmdRun>>

\* the GetCertificate callback of the configuration a builder returned
TopGetCertificate(role) ==
    CASE role = "SetupPromTLS" -> SetupPromTLS_GetCertificate
      [] role = "SetupTLSWithCertManager" -> SetupTLSWithCertManager_GetCertificate
      [] role = "SetupTLSForVirtHandlerServer" -> SetupTLSForVirtHandlerServer_GetCertificate
      [] role = "SetupTLSForVirtHandlerClients" -> SetupTLSForVirtHandlerClients_GetCertificate

\* the GetConfigForClient callback of the configuration a builder returned
TopGetConfigForClient(role) ==
    CASE role = "SetupPromTLS" -> SetupPromTLS_GetConfigForClient
      [] role = "SetupTLSWithCertManager" ->
             SetupTLSWithCertManager_GetConfigForClient(tlsConfig[role].clientAuth)
      [] role = "SetupTLSForVirtHandlerServer" ->
             SetupTLSForVirtHandlerServer_GetConfigForClient(tlsConfig[role].externallyManaged)

\* GetCertificate of a builder's configuration is called
GetCertificate(h, role) ==
    /\ hs[h].pc = "idle"
    /\ tlsConfig[role].GetCertificate
    /\ LET r == TopGetCertificate(role)
       IN hs' = [hs EXCEPT ![h] = [IdleHS EXCEPT !.pc = "gotCertificate", !.role = role,
                                                 !.cert = r.cert, !.err = r.err]]
    /\ UNCHANGED env

\* a server receives a ClientHello: the runtime calls GetConfigForClient
GetConfigForClient(h, role) ==
    /\ hs[h].pc = "idle"
    /\ tlsConfig[role].GetConfigForClient
    /\ LET r == TopGetConfigForClient(role)
       IN hs' = [hs EXCEPT ![h] =
                   [IdleHS EXCEPT !.pc = IF r.err # Nil THEN "aborted" ELSE "configured",
                                  !.role = role, !.config = r.config, !.err = r.err]]
    /\ UNCHANGED env

\* the runtime selects the server certificate from the per-client configuration:
\* its GetCertificate when it has no Certificates, else its first certificate
SelectCertificate(h) ==
    /\ hs[h].pc = "configured"
    /\ LET config == hs[h].config
           r == IF config.GetCertificate /\ Len(config.Certificates) = 0
                   THEN PerClient_GetCertificate(config)
                   ELSE IF Len(config.Certificates) = 0
                           THEN [cert |-> Nil, err |-> "tls: no certificates configured"]
                           ELSE [cert |-> config.Certificates[1], err |-> Nil]
       IN hs' = [hs EXCEPT ![h] =
                   IF r.err # Nil THEN Ended(h, "aborted", Nil, <<>>, r.err)
                   ELSE IF config.VerifyPeerCertificate
                           THEN [hs[h] EXCEPT !.pc = "certified", !.cert = r.cert]
                   ELSE Ended(h, "done", r.cert, <<>>, Nil)]
    /\ UNCHANGED env

\* the peer server's runtime calls VerifyPeerCertificate on the client's chain
ServerVerifyPeerCertificate(h, rawCerts) ==
    /\ hs[h].pc = "certified"
    /\ hs[h].config.VerifyPeerCertificate
    /\ LET err == PerClient_VerifyPeerCertificate(hs[h].config, rawCerts)
       IN hs' = [hs EXCEPT ![h] =
                   Ended(h, IF err # Nil THEN "aborted" ELSE "done",
                         hs[h].cert, rawCerts, err)]
    /\ UNCHANGED env

\* the peer client's runtime calls VerifyPeerCertificate on the server's chain
ClientVerifyPeerCertificate(h, rawCerts) ==
    /\ hs[h].pc = "idle"
    /\ LET config == tlsConfig["SetupTLSForVirtHandlerClients"]
           err == SetupTLSForVirtHandlerClients_VerifyPeerCertificate(config, rawCerts)
       IN /\ config.VerifyPeerCertificate
          /\ hs' = [hs EXCEPT ![h] =
                      [IdleHS EXCEPT !.pc = IF err # Nil THEN "aborted" ELSE "verified",
                                     !.role = "SetupTLSForVirtHandlerClients",
                                     !.config = config, !.rawCerts = rawCerts,
                                     !.err = err]]
    /\ UNCHANGED env

\* the server asked for a client certificate: the runtime calls GetClientCertificate
GetClientCertificate(h) ==
    /\ hs[h].pc = "verified"
    /\ hs[h].config.GetClientCertificate
    /\ LET r == SetupTLSForVirtHandlerClients_GetClientCertificate
       IN hs' = [hs EXCEPT ![h] =
                   Ended(h, IF r.err # Nil THEN "aborted" ELSE "done",
                         r.cert, hs[h].rawCerts, r.err)]
    /\ UNCHANGED env

\* the connection is closed
Finish(h) ==
    /\ hs[h].pc \in {"gotCertificate", "done", "aborted"}
    /\ hs' = [hs EXCEPT ![h] = IdleHS]
    /\ UNCHANGED env

\* ---- the external managers
RotateCertificate(c) ==
    /\ c # certCurrent
    /\ certCurrent' = c
    /\ UNCHANGED <<caCurrent, clusterConfig, tlsConfig, systemRoots, hs, verifyCall,
                 policyCall, cmdRun>>

RotateCA(r) ==
    /\ r # caCurrent
    /\ caCurrent' = r
    /\ UNCHANGED <<certCurrent, clusterConfig, tlsConfig, systemRoots, hs, verifyCall,
                 policyCall, cmdRun>>

UpdateClusterConfig(cc) ==
    /\ cc # clusterConfig
    /\ clusterConfig' = cc
    /\ UNCHANGED <<certCurrent, caCurrent, tlsConfig, systemRoots, hs, verifyCall,
                 policyCall, cmdRun>>

Next ==
    \/ \E h \in Handshakes, role \in Roles : GetCertificate(h, role)
    \/ \E h \in Handshakes, role \in ServerRoles : GetConfigForClient(h, role)
    \/ \E h \in Handshakes : SelectCertificate(h)
    \/ \E h \in Handshakes, rawCerts \in PeerChains : ServerVerifyPeerCertificate(h, rawCerts)
    \/ \E h \in Handshakes, rawCerts \in PeerChains : ClientVerifyPeerCertificate(h, rawCerts)
    \/ \E h \in Handshakes : GetClientCertificate(h)
    \/ \E h \in Handshakes : Finish(h)
    \/ \E c \in OwnCerts \cup {Nil} : RotateCertificate(c)
    \/ \E r \in CAResults : RotateCA(r)
    \/ \E cc \in ClusterConfigs : UpdateClusterConfig(cc)

Spec == Init /\ [][Next]_vars

\* ---- direct calls of verifyPeerCert
InitVerify ==
    /\ certCurrent = BuildCert
    /\ caCurrent = BuildCA
    /\ clusterConfig = BuildClusterConfig
    /\ systemRoots \in SystemRootSets
    /\ tlsConfig = [r \in Roles |-> NilConfig]
    /\ hs = [h \in Handshakes |-> IdleHS]
    /\ verifyCall \in [called : {FALSE}, rawCerts : VerifyChains,
                       externallyManaged : BOOLEAN,
                       certPool : {NilPool, PoolR1, PoolR2},
                       usage : {ExtKeyUsageClientAuth, ExtKeyUsageServerAuth},
                       commonName : {"client", "node"}, result : {Nil}]
    /\ policyCall = NoPolicyCall
    /\ cmdRun = NoRun

CallVerifyPeerCert ==
    /\ ~verifyCall.called
    /\ verifyCall' = [verifyCall EXCEPT
                        !.called = TRUE,
                        !.result = verifyPeerCert(verifyCall.rawCerts,
                                                  verifyCall.externallyManaged,
                                                  verifyCall.certPool,
                                                  verifyCall.usage,
                                                  verifyCall.commonName)]
    /\ UNCHANGED <<certCurrent, caCurrent, clusterConfig, tlsConfig, systemRoots, hs,
                   policyCall, cmdRun>>

NextVerify == CallVerifyPeerCert

SpecVerify == InitVerify /\ [][NextVerify]_vars

\* ---- handshakes of the two peer roles with any presented chain, under each
\* answer of the CA manager
PresentedChains == VerifyChains \ {<<>>}

InitPeer ==
    /\ certCurrent = BuildCert
    /\ caCurrent \in CAResults
    /\ clusterConfig = BuildClusterConfig
    /\ systemRoots \in SystemRootSets
    /\ \E p \in BuilderArguments :
         tlsConfig =
           [r \in Roles |->
              CASE r = "SetupPromTLS" -> SetupPromTLS
                [] r = "SetupTLSWithCertManager" -> SetupTLSWithCertManager(p.clientAuth)
                [] r = "SetupTLSForVirtHandlerServer" ->
                       SetupTLSForVirtHandlerServer(p.externallyManaged)
                [] r = "SetupTLSForVirtHandlerClients" ->
                       SetupTLSForVirtHandlerClients(p.externallyManaged)]
    /\ hs = [h \in Handshakes |-> IdleHS]
    /\ verifyCall = NoCall
    /\ policyCall = NoPolicyCall
    /\ cmdRun = NoRun

NextPeer ==
    \/ GetConfigForClient(1, "SetupTLSForVirtHandlerServer")
    \/ SelectCertificate(1)
    \/ \E rawCerts \in PresentedChains : ServerVerifyPeerCertificate(1, rawCerts)
    \/ \E rawCerts \in PresentedChains : ClientVerifyPeerCertificate(1, rawCerts)
    \/ GetClientCertificate(1)
    \/ Finish(1)

SpecPeer == InitPeer /\ [][NextPeer]_vars

\* ---- handshakes of the metrics server and the peer server running
\* side by side on the configurations the builders returned
MaxConcurrent == 2

ConcurrentHandshakes == 1..MaxConcurrent

ConcurrentRoles == {"SetupPromTLS", "SetupTLSForVirtHandlerServer"}

ConcurrentChains == {<<Leaf("R1", ClientCN, {ExtKeyUsageClientAuth})>>,
                     <<Leaf("R2", ClientCN, {ExtKeyUsageClientAuth})>>}

InitConcurrent ==
    /\ certCurrent = BuildCert
    /\ caCurrent = BuildCA
    /\ clusterConfig = BuildClusterConfig
    /\ systemRoots = {RootRX}
    /\ \E p \in BuilderArguments :
         tlsConfig =
           [r \in Roles |->
              CASE r = "SetupPromTLS" -> SetupPromTLS
                [] r = "SetupTLSWithCertManager" -> SetupTLSWithCertManager(p.clientAuth)
                [] r = "SetupTLSForVirtHandlerServer" ->
                       SetupTLSForVirtHandlerServer(p.externallyManaged)
                [] r = "SetupTLSForVirtHandlerClients" ->
                       SetupTLSForVirtHandlerClients(p.externallyManaged)]
    /\ hs = [h \in ConcurrentHandshakes |-> IdleHS]
    /\ verifyCall = NoCall
    /\ policyCall = NoPolicyCall
    /\ cmdRun = NoRun

NextConcurrent ==
    \/ \E h \in ConcurrentHandshakes, role \in ConcurrentRoles : GetCertificate(h, role)
    \/ \E h \in ConcurrentHandshakes, role \in ConcurrentRoles : GetConfigForClient(h, role)
    \/ \E h \in ConcurrentHandshakes : SelectCertificate(h)
    \/ \E h \in ConcurrentHandshakes, rawCerts \in ConcurrentChains :
          ServerVerifyPeerCertificate(h, rawCerts)
    \/ \E h \in ConcurrentHandshakes : Finish(h)
    \/ \E c \in {BuildCert, Nil} : RotateCertificate(c)
    \/ \E r \in {BuildCA, [pool |-> NilPool, err |-> Nil],
                  [pool |-> NilPool, err |-> CAError]} : RotateCA(r)
    \/ \E cc \in {NoKubeVirt, NoTLSConfiguration} : UpdateClusterConfig(cc)

SpecConcurrent == InitConcurrent /\ [][NextConcurrent]_vars

\* ---- direct calls of TlsVersion, CipherSuiteIds and getTLSConfiguration
InitPolicy ==
    /\ certCurrent = BuildCert
    /\ caCurrent = BuildCA
    /\ clusterConfig = BuildClusterConfig
    /\ systemRoots = {RootRX}
    /\ tlsConfig = [r \in Roles |-> NilConfig]
    /\ hs = [h \in Handshakes |-> IdleHS]
    /\ verifyCall = NoCall
    /\ cmdRun = NoRun
    /\ \/ \E v \in VersionLabels :
            policyCall = [NoPolicyCall EXCEPT !.fn = "TlsVersion", !.version = v]
       \/ \E ns \in NameSeqs :
            policyCall = [NoPolicyCall EXCEPT !.fn = "CipherSuiteIds", !.names = ns]
       \/ \E cc \in PolicyConfigs :
            policyCall = [NoPolicyCall EXCEPT !.fn = "getTLSConfiguration", !.cc = cc]

CallTlsVersion ==
    /\ policyCall.fn = "TlsVersion" /\ ~policyCall.called
    /\ policyCall' = [policyCall EXCEPT !.called = TRUE,
                                        !.id = TlsVersion(policyCall.version)]
    /\ UNCHANGED <<certCurrent, caCurrent, clusterConfig, tlsConfig, systemRoots, hs,
                   verifyCall, cmdRun>>

CallCipherSuiteIds ==
    /\ policyCall.fn = "CipherSuiteIds" /\ ~policyCall.called
    /\ policyCall' = [policyCall EXCEPT !.called = TRUE,
                                        !.ids = CipherSuiteIds(policyCall.names)]
    /\ UNCHANGED <<certCurrent, caCurrent, clusterConfig, tlsConfig, systemRoots, hs,
                   verifyCall, cmdRun>>

CallGetTLSConfiguration ==
    /\ policyCall.fn = "getTLSConfiguration" /\ ~policyCall.called
    /\ policyCall' = [policyCall EXCEPT
                        !.called = TRUE,
                        !.tlsConfiguration = getTLSConfiguration(policyCall.cc)]
    /\ UNCHANGED <<certCurrent, caCurrent, clusterConfig, tlsConfig, systemRoots, hs,
                   verifyCall, cmdRun>>

NextPolicy ==
    \/ CallTlsVersion
    \/ CallCipherSuiteIds
    \/ CallGetTLSConfiguration

SpecPolicy == InitPolicy /\ [][NextPolicy]_vars

\* ---- runs of the log-verbosity command
InitLogVerbosity ==
    /\ certCurrent = BuildCert
    /\ caCurrent = BuildCA
    /\ clusterConfig = BuildClusterConfig
    /\ systemRoots = {RootRX}
    /\ tlsConfig = [r \in Roles |-> NilConfig]
    /\ hs = [h \in Handshakes |-> IdleHS]
    /\ verifyCall = NoCall
    /\ policyCall = NoPolicyCall
    /\ \E flags \in FlagSets, reset \in ResetOptions, e \in Environments :
          cmdRun = [NoRun EXCEPT !.flags = flags, !.reset = reset, !.env = e,
                                 !.result = Outcome(e.kv), !.part000 = Outcome(e.kv)]

CallExecute ==
    /\ ~cmdRun.called
    /\ cmdRun' = [cmdRun EXCEPT !.called = TRUE,
                                !.result = Execute(cmdRun.flags, cmdRun.reset, cmdRun.env),
                                !.part000 = Execute_part000(cmdRun.flags, cmdRun.reset,
                                                            cmdRun.env)]
    /\ UNCHANGED <<certCurrent, caCurrent, clusterConfig, tlsConfig, systemRoots, hs,
                   verifyCall, policyCall>>

NextLogVerbosity == CallExecute

SpecLogVerbosity == InitLogVerbosity /\ [][NextLogVerbosity]_vars

\* ======================================================================
\* Properties
\* ======================================================================
PeerRoles == {"SetupTLSForVirtHandlerServer", "SetupTLSForVirtHandlerClients"}

\* this step is handshake h's call of a builder's GetCertificate
IsGetCertificate(h) == hs[h].pc = "idle" /\ hs'[h].pc = "gotCertificate"

\* this step is handshake h's call of a server builder's GetConfigForClient
IsGetConfigForClient(h) ==
    /\ hs[h].pc = "idle"
    /\ hs'[h].pc \in {"configured", "aborted"}
    /\ hs'[h].role \in ServerRoles

\* the server certificate a per-client configuration provides
ProvidedCertificate(config) ==
    IF Len(config.Certificates) > 0 THEN config.Certificates[1]
    ELSE IF config.GetCertificate THEN PerClient_GetCertificate(config).cert
    ELSE Nil

\* C1: whenever certManager.Current() is nil when a builder's GetCertificate
\* runs, the callback returns the "server is not yet ready" error and no
\* certificate; it never returns a nil certificate with a nil error.
C1_GetCertificateNotReady ==
    [][\A h \in Handshakes :
          IsGetCertificate(h) =>
            /\ (certCurrent = Nil =>
                  hs'[h].err = noSrvCertMessage /\ hs'[h].cert = Nil)
            /\ ~(hs'[h].cert = Nil /\ hs'[h].err = Nil)]_vars

C1_Witness ==
    \E h \in Handshakes :
       /\ hs[h].pc = "gotCertificate"
       /\ hs[h].role = "SetupTLSForVirtHandlerClients"
       /\ hs[h].err = noSrvCertMessage
       /\ certCurrent = Nil

\* C2: a per-client configuration that GetConfigForClient of a server builder
\* returns without error provides a non-nil server certificate; when
\* certManager.Current() is nil the callback returns an error and no
\* configuration.
C2_ConfigHasCertificate ==
    [][\A h \in Handshakes :
          IsGetConfigForClient(h) =>
            /\ (hs'[h].pc = "configured" =>
                  /\ hs'[h].err = Nil
                  /\ ~hs'[h].config.nil
                  /\ ProvidedCertificate(hs'[h].config) \in OwnCerts)
            /\ (certCurrent = Nil =>
                  /\ hs'[h].pc = "aborted"
                  /\ hs'[h].err # Nil
                  /\ hs'[h].config = NilConfig)]_vars

C2_Witness ==
    \E h \in Handshakes :
       /\ hs[h].pc = "configured"
       /\ hs[h].role = "SetupTLSForVirtHandlerServer"
       /\ Len(hs[h].config.Certificates) = 0
       /\ ProvidedCertificate(hs[h].config) = "certB"

\* C3: the certificate and the trust pool a handshake uses are the values the
\* managers return when the handshake's callback runs (for the peer server:
\* when its GetConfigForClient runs), not the values at builder time.
C3_CurrentValuesUsed ==
    [][\A h \in Handshakes :
          /\ (IsGetCertificate(h) /\ hs'[h].err = Nil => hs'[h].cert = certCurrent)
          /\ (IsGetConfigForClient(h) /\ hs'[h].pc = "configured" =>
                /\ ProvidedCertificate(hs'[h].config) = certCurrent
                /\ (hs'[h].role # "SetupPromTLS" =>
                      hs'[h].config.ClientCAs = caCurrent.pool))
          /\ (hs[h].pc = "configured" /\ hs'[h].pc # "configured" =>
                hs'[h].cert = ProvidedCertificate(hs[h].config))
          /\ (hs[h].pc = "certified" /\ hs'[h].pc # "certified" =>
                hs'[h].err = verifyPeerCert(hs'[h].rawCerts,
                                            tlsConfig[hs[h].role].externallyManaged,
                                            hs[h].config.ClientCAs,
                                            ExtKeyUsageClientAuth, "client"))
          /\ (hs[h].pc = "idle" /\ hs'[h].role = "SetupTLSForVirtHandlerClients"
                /\ hs'[h].pc \in {"verified", "aborted"} /\ caCurrent.err = Nil =>
                hs'[h].err = verifyPeerCert(hs'[h].rawCerts,
                                            tlsConfig[hs'[h].role].externallyManaged,
                                            caCurrent.pool,
                                            ExtKeyUsageServerAuth, "node"))
          /\ (hs[h].pc = "verified" /\ hs'[h].pc = "done" =>
                hs'[h].cert = certCurrent)]_vars

C3_Witness ==
    \E h \in Handshakes :
       /\ hs[h].pc = "configured"
       /\ hs[h].role = "SetupTLSForVirtHandlerServer"
       /\ ProvidedCertificate(hs[h].config) = "certB"
       /\ hs[h].config.ClientCAs = PoolR2
       /\ BuildCert = "certA" /\ BuildCA.pool = PoolR1

\* C4: a peer-role configuration in use by a handshake that has
\* InsecureSkipVerify set also has VerifyPeerCertificate installed, and a
\* peer-role handshake completes only with a chain that verifyPeerCert accepts.
C4_SkipVerifyHasVerifier ==
    \A h \in Handshakes :
       /\ (hs[h].pc \in {"configured", "certified", "verified"}
             /\ hs[h].role \in PeerRoles /\ hs[h].config.InsecureSkipVerify
           => hs[h].config.VerifyPeerCertificate)
       /\ (hs[h].pc \in {"configured", "certified", "verified"}
             /\ hs[h].role \in PeerRoles
           => hs[h].config.InsecureSkipVerify)
       /\ (hs[h].pc \in {"verified", "done"} /\ hs[h].role \in PeerRoles =>
             /\ hs[h].rawCerts # <<>>
             /\ \E r \in CAResults :
                  verifyPeerCert(hs[h].rawCerts,
                                 tlsConfig[hs[h].role].externallyManaged, r.pool,
                                 IF hs[h].role = "SetupTLSForVirtHandlerServer"
                                    THEN ExtKeyUsageClientAuth ELSE ExtKeyUsageServerAuth,
                                 IF hs[h].role = "SetupTLSForVirtHandlerServer"
                                    THEN "client" ELSE "node") = Nil)

C4_Witness ==
    \E h \in Handshakes :
       /\ hs[h].pc = "certified" /\ hs[h].role = "SetupTLSForVirtHandlerServer"
       /\ hs[h].config.InsecureSkipVerify
       /\ hs[h].config.VerifyPeerCertificate

\* ---- verifyPeerCert, called directly
\* the roots x509 verifies against for a trust pool
EffectiveRoots(certPool) == IF certPool.nil THEN systemRoots ELSE certPool.certs

\* the presented leaf, once parsed
PresentedLeaf == Cert(verifyCall.rawCerts[1])

\* the presented leaf was signed by a root of the trust pool and it and the
\* root allow the required usage
SignedByTrustedRoot ==
    /\ AllowsUsage(PresentedLeaf, verifyCall.usage)
    /\ \E r \in EffectiveRoots(verifyCall.certPool) :
          r.subject = PresentedLeaf.issuer /\ AllowsUsage(r, verifyCall.usage)

\* the presented intermediates that parse
PresentedIntermediates ==
    {Cert(verifyCall.rawCerts[i]) : i \in {j \in 2..Len(verifyCall.rawCerts) :
                                             verifyCall.rawCerts[j].wellFormed}}

\* C5: with externallyManaged false, verifyPeerCert fails for every leaf whose
\* common name differs from kubevirt.io:system:<role>:virt-handler, and fails
\* with the name-mismatch error when the leaf verifies against the trust pool
\* with the required usage.
C5_NameMismatchFails ==
    (/\ verifyCall.called
     /\ ~verifyCall.externallyManaged
     /\ verifyCall.rawCerts # <<>>
     /\ verifyCall.rawCerts[1].wellFormed
     /\ PresentedLeaf.cn # "kubevirt.io:system:" \o verifyCall.commonName \o ":virt-handler")
    => /\ verifyCall.result # Nil
       /\ (SignedByTrustedRoot => verifyCall.result = commonNameMessage)

C5_Witness ==
    /\ verifyCall.called
    /\ ~verifyCall.externallyManaged
    /\ verifyCall.rawCerts = <<Leaf("R1", NodeCN, {ExtKeyUsageClientAuth})>>
    /\ verifyCall.certPool = PoolR1
    /\ verifyCall.usage = ExtKeyUsageClientAuth
    /\ verifyCall.commonName = "client"
    /\ verifyCall.result = commonNameMessage

\* C6 as claimed: when caManager.GetCurrent() returns an error,
\* GetConfigForClient of the peer server and of the generic server returns
\* that same error and no configuration.
C6_SameErrorBothServers ==
    [][\A h \in Handshakes :
          (/\ IsGetConfigForClient(h)
           /\ hs'[h].role \in {"SetupTLSForVirtHandlerServer", "SetupTLSWithCertManager"}
           /\ caCurrent.err # Nil)
          => /\ hs'[h].pc = "aborted"
             /\ hs'[h].config = NilConfig
             /\ hs'[h].err = caCurrent.err]_vars

\* C6 amended: when caManager.GetCurrent() returns an error, GetConfigForClient
\* of both servers returns no configuration; the peer server returns that same
\* error, the generic server returns it when certManager.Current() is not nil
\* and the "server is not yet ready" error otherwise.
C6_CAErrorRefused ==
    [][\A h \in Handshakes :
          (/\ IsGetConfigForClient(h)
           /\ hs'[h].role \in {"SetupTLSForVirtHandlerServer", "SetupTLSWithCertManager"}
           /\ caCurrent.err # Nil)
          => /\ hs'[h].pc = "aborted"
             /\ hs'[h].config = NilConfig
             /\ hs'[h].err =
                  IF hs'[h].role = "SetupTLSWithCertManager" /\ certCurrent = Nil
                     THEN noSrvCertMessage
                     ELSE caCurrent.err]_vars

C6_Witness ==
    \E h \in Handshakes :
       /\ hs[h].pc = "aborted" /\ hs[h].role = "SetupTLSWithCertManager"
       /\ hs[h].err = CAError
       /\ caCurrent.err = CAError
       /\ certCurrent \in OwnCerts

\* C7: when caManager.GetCurrent() returns no pool and no error,
\* GetConfigForClient of the peer server returns an error and no
\* configuration, whatever certManager.Current() returns.
C7_NoPoolRefused ==
    [][\A h \in Handshakes :
          (/\ IsGetConfigForClient(h)
           /\ hs'[h].role = "SetupTLSForVirtHandlerServer"
           /\ caCurrent.err = Nil /\ caCurrent.pool.nil)
          => /\ hs'[h].pc = "aborted"
             /\ hs'[h].config = NilConfig
             /\ hs'[h].err # Nil]_vars

C7_Witness ==
    \E h \in Handshakes :
       /\ hs[h].pc = "aborted" /\ hs[h].role = "SetupTLSForVirtHandlerServer"
       /\ hs[h].err = noCACertMessage
       /\ caCurrent = [pool |-> NilPool, err |-> Nil]
       /\ certCurrent \in OwnCerts

\* C8: every per-client configuration of the three server builders has
\* MinVersion = TlsVersion(v) and CipherSuites = CipherSuiteIds(c) for the
\* policy (v, c) the cluster configuration holds when GetConfigForClient runs.
C8_CurrentPolicyUsed ==
    [][\A h \in Handshakes :
          (IsGetConfigForClient(h) /\ hs'[h].pc = "configured") =>
            LET policy == IF clusterConfig.kv /\ clusterConfig.tls
                             THEN clusterConfig
                             ELSE [MinTLSVersion |-> "VersionTLS12", Ciphers |-> <<>>]
            IN /\ hs'[h].config.MinVersion = TlsVersion(policy.MinTLSVersion)
               /\ hs'[h].config.CipherSuites = CipherSuiteIds(policy.Ciphers)]_vars

C8_Witness ==
    \E h \in Handshakes :
       /\ hs[h].pc = "configured" /\ hs[h].role = "SetupPromTLS"
       /\ hs[h].config.MinVersion = VersionTLS13
       /\ hs[h].config.CipherSuites = <<4865, 5>>
       /\ BuildClusterConfig = NoKubeVirt

\* C9: with externallyManaged true, verifyPeerCert succeeds for every chain
\* whose leaf parses and chains to a root of the trust pool through the
\* presented intermediates with the required usage, whatever its common name.
C9_ExternalChainAccepted ==
    (/\ verifyCall.called
     /\ verifyCall.externallyManaged
     /\ verifyCall.rawCerts # <<>>
     /\ verifyCall.rawCerts[1].wellFormed
     /\ ~verifyCall.certPool.nil
     /\ ChainsTo(PresentedLeaf, verifyCall.certPool.certs, PresentedIntermediates,
                 verifyCall.usage))
    => verifyCall.result = Nil

C9_Witness ==
    /\ verifyCall.called
    /\ verifyCall.externallyManaged
    /\ verifyCall.rawCerts = <<Leaf("I1", "other", {}), Garbage, RawI1>>
    /\ verifyCall.certPool = PoolR1
    /\ verifyCall.result = Nil

\* C10: verifyPeerCert called with an empty chain fails with the "no client
\* certificate provided." error, whatever its other arguments.
C10_EmptyChainFails ==
    (verifyCall.called /\ Len(verifyCall.rawCerts) = 0)
    => verifyCall.result = noPeerCertMessage

C10_Witness ==
    /\ verifyCall.called
    /\ verifyCall.rawCerts = <<>>
    /\ verifyCall.externallyManaged
    /\ verifyCall.certPool = NilPool
    /\ verifyCall.result = noPeerCertMessage

\* ---- C11: TlsVersion maps each of the four labels VersionTLS10, VersionTLS11,
\* VersionTLS12 and VersionTLS13 to its own numeric identifier (0x0301..0x0304),
\* and every other label, the empty one included, to the identifier of TLS 1.2.
C11_TlsVersionMapping ==
    (policyCall.fn = "TlsVersion" /\ policyCall.called)
    => /\ policyCall.version = "VersionTLS10" => policyCall.id = 769
       /\ policyCall.version = "VersionTLS11" => policyCall.id = 770
       /\ policyCall.version = "VersionTLS12" => policyCall.id = 771
       /\ policyCall.version = "VersionTLS13" => policyCall.id = 772
       /\ policyCall.version \notin {"VersionTLS10", "VersionTLS11", "VersionTLS12",
                                     "VersionTLS13"} => policyCall.id = 771

C11_Witness ==
    /\ policyCall.fn = "TlsVersion" /\ policyCall.called
    /\ policyCall.version = ""
    /\ policyCall.id = 771

\* the identifier the runtime's catalog gives a cipher suite name
CatalogId(name) ==
    CASE name = "TLS_AES_128_GCM_SHA256" -> 4865
      [] name = "TLS_AES_256_GCM_SHA384" -> 4866
      [] name = "TLS_ECDHE_RSA_WITH_AES_128_GCM_SHA256" -> 49199
      [] name = "TLS_RSA_WITH_RC4_128_SHA" -> 5
      [] name = "TLS_RSA_WITH_3DES_EDE_CBC_SHA" -> 10

InCatalog(name) ==
    name \in {"TLS_AES_128_GCM_SHA256", "TLS_AES_256_GCM_SHA384",
              "TLS_ECDHE_RSA_WITH_AES_128_GCM_SHA256", "TLS_RSA_WITH_RC4_128_SHA",
              "TLS_RSA_WITH_3DES_EDE_CBC_SHA"}

\* ---- C12: CipherSuiteIds(names) returns, in the order of names, the catalog's
\* identifier of every name that is in the catalog (secure or insecure), and
\* leaves out every name that is not; the identifier of a name is the same in
\* every call.
C12_CipherSuiteIdsInOrder ==
    (policyCall.fn = "CipherSuiteIds" /\ policyCall.called)
    => LET known == SelectSeq(policyCall.names, InCatalog)
       IN /\ Len(policyCall.ids) = Len(known)
          /\ \A i \in 1..Len(known) : policyCall.ids[i] = CatalogId(known[i])

C12_Witness ==
    /\ policyCall.fn = "CipherSuiteIds" /\ policyCall.called
    /\ policyCall.names = <<"TLS_RSA_WITH_RC4_128_SHA", "NOT_A_CIPHER",
                            "TLS_AES_128_GCM_SHA256">>
    /\ policyCall.ids = <<5, 4865>>

\* ---- C13: getTLSConfiguration returns the default policy (minimum version
\* VersionTLS12, no cipher names) when there is no KubeVirt CR or the CR has no
\* TLS configuration, and the CR's TLS configuration exactly when it has one.
C13_DefaultPolicy ==
    (policyCall.fn = "getTLSConfiguration" /\ policyCall.called)
    => IF policyCall.cc.kv /\ policyCall.cc.tls
          THEN /\ policyCall.tlsConfiguration.MinTLSVersion = policyCall.cc.MinTLSVersion
               /\ policyCall.tlsConfiguration.Ciphers = policyCall.cc.Ciphers
          ELSE /\ policyCall.tlsConfiguration.MinTLSVersion = "VersionTLS12"
               /\ policyCall.tlsConfiguration.Ciphers = <<>>

C13_Witness ==
    /\ policyCall.fn = "getTLSConfiguration" /\ policyCall.called
    /\ policyCall.cc = NoTLSConfiguration
    /\ policyCall.tlsConfiguration = [MinTLSVersion |-> "VersionTLS12", Ciphers |-> <<>>]

\* ---- C14: the client-certificate requirement of every per-client server
\* configuration is fixed by the builder: VerifyClientCertIfGiven for the
\* metrics server, the clientAuth the builder was given for the generic server,
\* RequireAndVerifyClientCert for the peer server.
C14_ClientAuthByRole ==
    \A h \in Handshakes :
        (~hs[h].config.nil /\ hs[h].config.perClient)
        => /\ hs[h].role = "SetupPromTLS"
                => hs[h].config.ClientAuth = "VerifyClientCertIfGiven"
           /\ hs[h].role = "SetupTLSWithCertManager"
                => hs[h].config.ClientAuth = tlsConfig[hs[h].role].clientAuth
           /\ hs[h].role = "SetupTLSForVirtHandlerServer"
                => hs[h].config.ClientAuth = "RequireAndVerifyClientCert"

C14_Witness ==
    \E h \in Handshakes :
        /\ hs[h].pc = "configured"
        /\ hs[h].role = "SetupTLSWithCertManager"
        /\ tlsConfig["SetupTLSWithCertManager"].clientAuth = "NoClientCert"
        /\ hs[h].config.ClientAuth = "NoClientCert"
        /\ clusterConfig.tls

\* ---- C15: in every server builder, when certManager.Current() is nil,
\* GetConfigForClient fails with noSrvCertMessage, the message the
\* GetCertificate callbacks use.
C15_SameNotReadyMessage ==
    [][\A h \in Handshakes :
         (IsGetConfigForClient(h) /\ certCurrent = Nil)
         => hs'[h].err = noSrvCertMessage]_vars

\* what GetConfigForClient of a role reads is there: the certificate, and for
\* the peer server the CA pool without error
AccessorsReady(role) ==
    /\ certCurrent # Nil
    /\ role = "SetupTLSForVirtHandlerServer"
         => (caCurrent.err = Nil /\ ~caCurrent.pool.nil)

\* ---- C16: a callback that fails changes nothing that handshakes share (the
\* builders' configurations, the managers' values, the policy) and nothing of
\* another handshake; a callback whose own reads of the managers succeed
\* succeeds, whatever failed before or fails beside it.
C16_FailureNotShared ==
    [][\A h \in ConcurrentHandshakes :
         hs'[h] # hs[h]
         => /\ hs'[h].err # Nil
                 => /\ UNCHANGED <<certCurrent, caCurrent, clusterConfig, tlsConfig>>
                    /\ \A g \in ConcurrentHandshakes \ {h} : hs'[g] = hs[g]
            /\ (IsGetConfigForClient(h) /\ AccessorsReady(hs'[h].role))
                 => (hs'[h].pc = "configured" /\ hs'[h].err = Nil)
            /\ (IsGetCertificate(h) /\ certCurrent # Nil)
                 => (hs'[h].err = Nil /\ hs'[h].cert = certCurrent)]_vars

C16_Witness ==
    \E h, g \in ConcurrentHandshakes :
        /\ hs[h].pc = "aborted"
        /\ hs[h].role = "SetupTLSForVirtHandlerServer"
        /\ hs[h].err = noCACertMessage
        /\ caCurrent.pool.nil
        /\ hs[g].pc = "configured"
        /\ hs[g].role = "SetupPromTLS"
        /\ hs[g].config.Certificates = <<certCurrent>>

\* ---- what a command line asks for
Given(c) == cmdRun.flags[c].changed
ShowTargets == {c \in Components : Given(c) /\ cmdRun.flags[c].verbosity = noArg}
SetTargets == {c \in Components : Given(c) /\ cmdRun.flags[c].verbosity <= 9}
BadTargets == {c \in Components : Given(c) /\ cmdRun.flags[c].verbosity > 9
                                            /\ cmdRun.flags[c].verbosity # noArg}
\* the KubeVirt CR was retrieved
Retrieved == cmdRun.env.cluster = "ok"
\* cobra's check of the group (reset, all) let the command line through
GroupAccepted == ~(cmdRun.reset.changed /\ Given(all))

C18_RangeChecked ==
    (cmdRun.called /\ GroupAccepted)
    => /\ \A c \in BadTargets :
             (\A d \in BadTargets : c <= d)
             => cmdRun.result.err = componentName[c] \o ": log verbosity must be 0-9"
       /\ (BadTargets = {} /\ ShowTargets # {} /\ SetTargets = {} /\ ~cmdRun.reset.value
            /\ Retrieved /\ cmdRun.env.kv.devConfig)
            => /\ cmdRun.result.err = Nil
               /\ ~cmdRun.result.patched
               /\ cmdRun.result.printed # <<successMessage \o "\n">>

C18_Witness ==
    /\ cmdRun.called
    /\ cmdRun.flags[1] = [changed |-> TRUE, verbosity |-> 10]
    /\ cmdRun.flags[all] = [changed |-> TRUE, verbosity |-> noArg]
    /\ cmdRun.result.err = "virt-api: log verbosity must be 0-9"

\* ---- C19: a command line with no component flag, no --all and no --reset
\* fails with 'no flag specified - expecting at least one flag' (once the
\* KubeVirt CR was retrieved).
C19_NoFlagFails ==
    (cmdRun.called /\ Retrieved /\ ~cmdRun.reset.changed
     /\ \A c \in Components : ~Given(c))
    => cmdRun.result.err = "no flag specified - expecting at least one flag"

C19_Witness ==
    /\ cmdRun.called
    /\ Retrieved
    /\ ~cmdRun.reset.changed
    /\ \A c \in Components : ~Given(c)
    /\ cmdRun.result.err = "no flag specified - expecting at least one flag"
    /\ cmdRun.result.printed = <<"help">>

\* the lines a show request is to print: the requested components in the
\* fixed order, each with the CR's verbosity, or 2 when the CR has none
RECURSIVE ShowLines(_)
ShowLines(c) ==
    IF c = 0 THEN ""
    ELSE ShowLines(c - 1)
         \o (IF Given(c) \/ Given(all)
                THEN <<"virt-api", "virt-controller", "virt-handler", "virt-launcher",
                       "virt-operator">>[c]
                     \o "=" \o ToString(IF cmdRun.env.kv.lvSet /\ cmdRun.env.kv.lv[c] # 0
                                            THEN cmdRun.env.kv.lv[c] ELSE 2)
                     \o "\n"
                ELSE "")

\* ---- C20: a show request prints one 'name=value' line for exactly the
\* requested components (all five with --all, also beside other show flags),
\* in the order virt-api, virt-controller, virt-handler, virt-launcher,
\* virt-operator; the value is the CR's verbosity if it has one, else 2.
C20_ShowPrintsRequested ==
    (cmdRun.called /\ Retrieved /\ ShowTargets # {} /\ SetTargets = {}
     /\ BadTargets = {} /\ ~cmdRun.reset.changed)
    => /\ cmdRun.result.err = Nil
       /\ ~cmdRun.result.panic
       /\ cmdRun.result.printed = <<ShowLines(5) \o "\n">>

\* what holds of a show request when the CR has a developerConfiguration
ShowPrintsRequestedWhenConfigured ==
    cmdRun.env.kv.devConfig => C20_ShowPrintsRequested

\* the outcome of the command, and of its variant in part_000
Runs == {cmdRun.result, cmdRun.part000}
OwnComponents == 1..(virtComponentNum - 1)

\* ---- C21: a set request without --reset and without --all changes only the
\* verbosity of the components that have a set flag: once the patch is
\* applied they have the given values, and every other component has what the
\* CR had before (nothing, if it had nothing).
C21_SetChangesOnlyNamed ==
    (cmdRun.called /\ Retrieved /\ BadTargets = {} /\ ShowTargets = {} /\ SetTargets # {}
     /\ ~cmdRun.reset.value /\ ~Given(all))
    => \A r \in Runs :
          /\ cmdRun.env.kv.devConfig => (r.err = Nil /\ r.patched)
          /\ \A c \in OwnComponents :
                r.kv.lv[c] = IF c \in SetTargets /\ r.patched
                                THEN cmdRun.flags[c].verbosity
                                ELSE cmdRun.env.kv.lv[c]

C21_Witness ==
    /\ cmdRun.called
    /\ ~cmdRun.reset.changed
    /\ SetTargets = {3}
    /\ ShowTargets = {}
    /\ cmdRun.flags[3].verbosity = 7
    /\ cmdRun.env.kv.lv = <<5, 6, 0, 3, 4>>
    /\ cmdRun.result.patched
    /\ cmdRun.result.kv.lv = <<5, 6, 7, 3, 4>>

\* ---- C22: with --all=v, once the patch is applied each of the five
\* components has verbosity v, except those with a set flag of their own in
\* the same command line, which have their own value.
C22_AllSetsEveryComponent ==
    (cmdRun.called /\ Retrieved /\ GroupAccepted /\ BadTargets = {} /\ ShowTargets = {}
     /\ all \in SetTargets)
    => \A r \in Runs :
          /\ cmdRun.env.kv.devConfig => (r.err = Nil /\ r.patched)
          /\ r.patched
               => \A c \in OwnComponents :
                     r.kv.lv[c] = IF c \in SetTargets THEN cmdRun.flags[c].verbosity
                                                      ELSE cmdRun.flags[all].verbosity

C22_Witness ==
    /\ cmdRun.called
    /\ SetTargets = {1, all}
    /\ cmdRun.flags[all].verbosity = 7
    /\ cmdRun.flags[1].verbosity = 0
    /\ cmdRun.env.kv.lv = <<5, 6, 0, 3, 4>>
    /\ cmdRun.result.patched
    /\ cmdRun.result.kv.lv = <<0, 7, 7, 7, 7>>

\* ---- C23: with --reset on a CR that has a logVerbosity, once the patch is
\* applied the logVerbosity holds exactly the components with a set flag in
\* the same command line, with the given values; nothing it held before is
\* left (it is an empty object when there is no set flag).
C23_ResetKeepsOnlySetFlags ==
    (cmdRun.called /\ Retrieved /\ GroupAccepted /\ BadTargets = {} /\ ShowTargets = {}
     /\ cmdRun.reset.value /\ cmdRun.env.kv.devConfig /\ cmdRun.env.kv.lvSet)
    => \A r \in Runs :
          /\ r.err = Nil /\ ~r.panic
          /\ r.kv.lvSet
          /\ \A c \in OwnComponents :
                r.kv.lv[c] = IF c \in SetTargets THEN cmdRun.flags[c].verbosity ELSE 0

C23_Witness ==
    /\ cmdRun.called
    /\ cmdRun.reset.value
    /\ SetTargets = {3}
    /\ cmdRun.flags[3].verbosity = 7
    /\ cmdRun.env.kv.lv = <<5, 6, 0, 3, 4>>
    /\ Len(cmdRun.result.patchData) = 2
    /\ cmdRun.result.kv.lv = <<0, 0, 7, 0, 0>>

\* ---- C24: in a set/reset operation Patch is called only when the computed
\* patch has at least one operation; --reset on a CR without logVerbosity
\* calls no Patch and leaves logVerbosity nil.
C24_PatchOnlyWithData ==
    cmdRun.called
    => \A r \in Runs :
          /\ r.patched => Len(r.patchData) >= 1
          /\ (Retrieved /\ cmdRun.reset.value /\ \A c \in Components : ~Given(c))
              /\ cmdRun.env.kv.devConfig /\ ~cmdRun.env.kv.lvSet
               => (~r.patched /\ ~r.kv.lvSet)
\* a handshake of the peer server in which the client's chain was accepted
ServerAccepted(h) ==
    /\ hs[h].role = "SetupTLSForVirtHandlerServer"
    /\ hs[h].pc = "done"
    /\ hs[h].rawCerts # <<>>

\* a handshake of the peer client in which the server's chain was accepted
ClientAccepted(h) ==
    /\ hs[h].role = "SetupTLSForVirtHandlerClients"
    /\ hs[h].pc \in {"verified", "done"}

\* the leaf of the chain presented in handshake h, once parsed
HandshakeLeaf(h) == Cert(hs[h].rawCerts[1])

\* ---- C25 as claimed: the peer server accepts a client chain only when its
\* leaf allows client authentication and has the common name
\* kubevirt.io:system:client:virt-handler in internally-managed mode; the peer
\* client accepts a server chain only when its leaf allows server
\* authentication and has the common name kubevirt.io:system:node:virt-handler,
\* in either mode; a leaf with the other role's name is never accepted.
C25_OtherRoleAlwaysRejected ==
    \A h \in Handshakes :
       /\ ServerAccepted(h)
            => /\ hs[h].rawCerts[1].wellFormed
               /\ AllowsUsage(HandshakeLeaf(h), ExtKeyUsageClientAuth)
               /\ HandshakeLeaf(h).cn # NodeCN
               /\ ~tlsConfig[hs[h].role].externallyManaged => HandshakeLeaf(h).cn = ClientCN
       /\ ClientAccepted(h)
            => /\ hs[h].rawCerts[1].wellFormed
               /\ AllowsUsage(HandshakeLeaf(h), ExtKeyUsageServerAuth)
               /\ HandshakeLeaf(h).cn = NodeCN

\* ---- C25 amended: each peer role accepts a chain only when its leaf allows
\* the usage of its direction (client authentication for the peer server,
\* server authentication for the peer client) and, in internally-managed mode,
\* has the common name of the expected role; a leaf that has the other role's
\* name and chains to the trust pool fails with the name error there. In
\* externally-managed mode the common name is not compared.
C25_UsageAlwaysNameWhenInternal ==
    \A h \in Handshakes :
       LET externallyManaged == tlsConfig[hs[h].role].externallyManaged
       IN /\ ServerAccepted(h)
               => /\ hs[h].rawCerts[1].wellFormed
                  /\ AllowsUsage(HandshakeLeaf(h), ExtKeyUsageClientAuth)
                  /\ ~externallyManaged => HandshakeLeaf(h).cn = ClientCN
          /\ ClientAccepted(h)
               => /\ hs[h].rawCerts[1].wellFormed
                  /\ AllowsUsage(HandshakeLeaf(h), ExtKeyUsageServerAuth)
                  /\ ~externallyManaged => HandshakeLeaf(h).cn = NodeCN
          /\ (/\ hs[h].role = "SetupTLSForVirtHandlerServer"
              /\ hs[h].pc = "aborted"
              /\ hs[h].rawCerts = <<Leaf("R1", NodeCN, {ExtKeyUsageClientAuth})>>
              /\ caCurrent.pool = PoolR1)
               => (~externallyManaged /\ hs[h].err = commonNameMessage)

C25_Witness ==
    /\ ~tlsConfig["SetupTLSForVirtHandlerServer"].externallyManaged
    /\ hs[1].role = "SetupTLSForVirtHandlerServer"
    /\ hs[1].pc = "aborted"
    /\ hs[1].rawCerts = <<Leaf("R1", NodeCN, {ExtKeyUsageClientAuth})>>
    /\ hs[1].err = commonNameMessage

\* ---- C26: verifyPeerCert uses the presented intermediates only when
\* externallyManaged: when it is false a chain is accepted only if its leaf
\* reaches a root without any intermediate; when it is true a chain whose leaf
\* parses is accepted exactly when the leaf reaches a root through the
\* presented intermediates that parse, with the required usage; one that does
\* not parse is left out and does not fail the call.
C26_IntermediatesOnlyWhenExternal ==
    (verifyCall.called /\ verifyCall.rawCerts # <<>> /\ verifyCall.rawCerts[1].wellFormed)
    => LET roots == EffectiveRoots(verifyCall.certPool)
       IN IF verifyCall.externallyManaged
             THEN verifyCall.result = Nil
                    <=> ChainsTo(PresentedLeaf, roots, PresentedIntermediates,
                                 verifyCall.usage)
             ELSE /\ verifyCall.result = Nil
                       => ChainsTo(PresentedLeaf, roots, {}, verifyCall.usage)
                  /\ ~ChainsTo(PresentedLeaf, roots, {}, verifyCall.usage)
                       => verifyCall.result = verifyPeerCertMessage

C26_Witness ==
    /\ verifyCall.called
    /\ ~verifyCall.externallyManaged
    /\ verifyCall.rawCerts = <<Leaf("I1", ClientCN, {ExtKeyUsageClientAuth}), RawI1>>
    /\ verifyCall.certPool = PoolR1
    /\ verifyCall.usage = ExtKeyUsageClientAuth
    /\ verifyCall.commonName = "client"
    /\ verifyCall.result = verifyPeerCertMessage

\* ---- C27: the configuration a handshake of any of the four roles runs on,
\* the peer client's included, has the minimum version and the cipher
\* identifiers resolved from a security policy of the cluster configuration.
C27_EveryRoleCarriesPolicy ==
    \A h \in Handshakes :
       ~hs[h].config.nil
       => \E cc \in ClusterConfigs \cup {BuildClusterConfig} :
             LET tlsConfiguration == getTLSConfiguration(cc)
             IN /\ hs[h].config.MinVersion = TlsVersion(tlsConfiguration.MinTLSVersion)
                /\ hs[h].config.CipherSuites = CipherSuiteIds(tlsConfiguration.Ciphers)

\* ---- C28: while the CA manager returns no pool and no error, the peer
\* client's VerifyPeerCertificate accepts no server chain.
C28_NoPoolNoServerAccepted ==
    \A h \in Handshakes :
       ClientAccepted(h) => ~(caCurrent.pool.nil /\ caCurrent.err = Nil)
====
